---- MODULE Spec2Model ----
(***************************************************************************)
(* A model of CircularBuffer (src/src/buffer/circular_queue.py): a ring    *)
(* buffer over a numpy int16 array which resize() replaces by a Python     *)
(* list.  Every public method is one action; a method that raises keeps    *)
(* the assignments it made before the raise, as the Python code does.      *)
(* No method takes a lock: SpecThreads runs two calls statement by         *)
(* statement.                                                              *)
(*                                                                         *)
(* Python indices are 0-based, TLA+ sequences 1-based: storage slot i of   *)
(* the code is items[i + 1] here.                                          *)
(***************************************************************************)
EXTENDS Integers, Sequences, FiniteSets, TLC

\* ------------------------------------------------------------- bounds
\* Largest capacity a buffer is constructed with.
MaxInitCap == 3
\* Largest capacity (and storage length) a resize may produce.
MaxCapacity == 3
\* Sample values are 1..MaxVal.
MaxVal == 2
\* Longest sequence handed to bulk_enqueue, largest amount for bulk_dequeue.
MaxBulk == 3
\* size is explored within -MaxSkew .. MaxCapacity + MaxSkew.
MaxSkew == 2
\* Longest recorded history of enqueued values (SpecHist).
MaxHist == 4

\* np.zeros: the content of a slot never written.
ZeroVal == 0
\* [None] * new_capacity: the content of a slot of resized storage never written.
NoneVal == -1

Values == 1..MaxVal

VARIABLES
    items,        \* _items: the storage
    isList,       \* _items is a Python list (after resize), not a numpy array
    capacity,     \* _capacity
    head,         \* _head
    tail,         \* _tail
    size,         \* _size
    POW_2,        \* _POW_2
    OVERWRITING,  \* _OVERWRITING
    RESIZE,       \* _RESIZE
    DEBUG,        \* _DEBUG
    op,           \* the last public method called
    err,          \* the exception it raised, or "none"
    ret,          \* the sequence of values it returned
    enqd,         \* SpecHist: the values passed to enqueue, in order
    deqd,         \* SpecHist: the values dequeue returned, in order
    inBounds,     \* SpecHist: no enqueue met a full buffer, no dequeue an empty one
    held,         \* SpecAlias: the array the last bulk_dequeue gave its caller
    thr           \* SpecThreads: two threads inside enqueue or dequeue

prog == <<items, isList, capacity, head, tail, size, POW_2>>
flags == <<OVERWRITING, RESIZE, DEBUG>>
obs == <<op, err, ret>>
hist == <<enqd, deqd, inBounds>>
vars == <<items, isList, capacity, head, tail, size, POW_2,
          OVERWRITING, RESIZE, DEBUG, op, err, ret, enqd, deqd, inBounds,
          held, thr>>

\* ------------------------------------------------- Python primitives
Min(a, b) == IF a <= b THEN a ELSE b
Max(a, b) == IF a >= b THEN a ELSE b

\* a % b of Python: the sign of the divisor; ZeroDivisionError for b = 0.
PyMod(a, b) ==
    IF b = 0 THEN [ok |-> FALSE, val |-> 0, err |-> "ZeroDivisionError"]
    ELSE IF b > 0 THEN [ok |-> TRUE, val |-> a % b, err |-> "none"]
    ELSE [ok |-> TRUE, val |-> 0 - ((0 - a) % (0 - b)), err |-> "none"]

\* x & m of Python, bit by bit on the two's complement of x and m: the bits
\* of a negative number end in ones without end, those of -1 are all ones.
RECURSIVE BitAnd(_, _)
BitAnd(x, m) ==
    IF m = 0 THEN 0
    ELSE IF m = -1 THEN x
    ELSE (x % 2) * (m % 2) + 2 * BitAnd(x \div 2, m \div 2)

\* The position of Python index i in a sequence of length n, 0 when out of range.
PyIndex(n, i) ==
    IF i >= 0 /\ i < n THEN i + 1
    ELSE IF i < 0 /\ i >= 0 - n THEN i + n + 1
    ELSE 0

\* xs[i]
GetItem(xs, i) ==
    LET p == PyIndex(Len(xs), i) IN
    IF p = 0 THEN [ok |-> FALSE, val |-> 0, err |-> "IndexError"]
    ELSE [ok |-> TRUE, val |-> xs[p], err |-> "none"]

\* xs[i] = v
SetItem(xs, i, v) ==
    LET p == PyIndex(Len(xs), i) IN
    IF p = 0 THEN [ok |-> FALSE, val |-> xs, err |-> "IndexError"]
    ELSE [ok |-> TRUE, val |-> [xs EXCEPT ![p] = v], err |-> "none"]

\* A slice bound clamped into 0..n, a negative bound counted from the end.
SliceBound(n, b) ==
    IF b < 0 THEN Max(b + n, 0) ELSE Min(b, n)

\* xs[lo:hi]
Slice(xs, lo, hi) ==
    LET n == Len(xs)
        l == SliceBound(n, lo)
        h == SliceBound(n, hi)
    IN SubSeq(xs, l + 1, h)

\* xs[lo:hi] = vals.  A list splices vals in (its length may change); a numpy
\* array needs len(vals) equal to the slice's length, or 1 (broadcast).
SliceAssign(xs, lo, hi, vals, list) ==
    LET n == Len(xs)
        l == SliceBound(n, lo)
        h == Max(SliceBound(n, hi), l)
    IN IF list
       THEN [ok |-> TRUE, err |-> "none",
             val |-> SubSeq(xs, 1, l) \o vals \o SubSeq(xs, h + 1, n)]
       ELSE IF Len(vals) = h - l
       THEN [ok |-> TRUE, err |-> "none",
             val |-> [p \in 1..n |-> IF p > l /\ p <= h THEN vals[p - l] ELSE xs[p]]]
       ELSE IF Len(vals) = 1
       THEN [ok |-> TRUE, err |-> "none",
             val |-> [p \in 1..n |-> IF p > l /\ p <= h THEN vals[1] ELSE xs[p]]]
       ELSE [ok |-> FALSE, err |-> "ValueError", val |-> xs]

\* ------------------------------------------------------ the buffer
\* The buffer as a record, with the outcome of the call in progress.
Cur ==
    [items |-> items, isList |-> isList, capacity |-> capacity, head |-> head,
     tail |-> tail, size |-> size, POW_2 |-> POW_2, err |-> "none", ret |-> <<>>]

Raise(s, e) == [s EXCEPT !.err = e]

_is_power_of_2(cap) == cap > 0 /\ BitAnd(cap, cap - 1) = 0

\* A slip: the bitmask taken whatever the capacity.
_move_pointer_mask_always(s, pointer, step) ==
    [ok |-> TRUE, val |-> BitAnd(pointer + step, s.capacity - 1), err |-> "none"]

_move_pointer(s, pointer, step) ==
    IF s.POW_2
    THEN [ok |-> TRUE, val |-> BitAnd(pointer + step, s.capacity - 1), err |-> "none"]
    ELSE PyMod(pointer + step, s.capacity)

\* A slip: empty only once size is below zero.
is_empty_below_zero(s) == s.size < 0

is_empty(s) == s.size = 0

\* A slip: full only once size is beyond capacity.
is_full_beyond(s) == s.size > s.capacity

is_full(s) == s.size = s.capacity

\* for i in range(size): new_items[i] = _items[(_tail + i) % _capacity]
RECURSIVE CopyLoop(_, _, _)
CopyLoop(s, new_items, i) ==
    IF i >= s.size THEN [ok |-> TRUE, val |-> new_items, err |-> "none"]
    ELSE LET m == PyMod(s.tail + i, s.capacity) IN
         IF ~m.ok THEN [ok |-> FALSE, val |-> new_items, err |-> m.err]
         ELSE LET r == GetItem(s.items, m.val) IN
              IF ~r.ok THEN [ok |-> FALSE, val |-> new_items, err |-> r.err]
              ELSE LET w == SetItem(new_items, i, r.val) IN
                   IF ~w.ok THEN [ok |-> FALSE, val |-> new_items, err |-> w.err]
                   ELSE CopyLoop(s, w.val, i + 1)

\* A resize that does not look at the policy.
resize_any_policy(s, arg) ==
    LET new_capacity == IF arg = <<>>
                        THEN Max(s.capacity * 2, s.size + 1)
                        ELSE arg[1]
        fresh == [p \in 1..Max(new_capacity, 0) |-> NoneVal]
        c == CopyLoop(s, fresh, 0)
    IN IF ~c.ok THEN Raise(s, c.err)
       ELSE [s EXCEPT !.items = c.val,
                      !.isList = TRUE,
                      !.capacity = new_capacity,
                      !.head = s.size,
                      !.tail = 0,
                      !.POW_2 = _is_power_of_2(new_capacity)]

\* A resize that keeps the power-of-two flag of the old capacity.
resize_stale_flag(s, arg) ==
    IF ~RESIZE THEN s
    ELSE LET new_capacity == IF arg = <<>>
                             THEN Max(s.capacity * 2, s.size + 1)
                             ELSE arg[1]
             fresh == [p \in 1..Max(new_capacity, 0) |-> NoneVal]
             c == CopyLoop(s, fresh, 0)
         IN IF ~c.ok THEN Raise(s, c.err)
            ELSE [s EXCEPT !.items = c.val,
                           !.isList = TRUE,
                           !.capacity = new_capacity,
                           !.head = s.size,
                           !.tail = 0]

\* resize(new_capacity): arg is <<>> for None, <<c>> for the integer c.
resize(s, arg) ==
    IF ~RESIZE THEN s
    ELSE LET new_capacity == IF arg = <<>>
                             THEN Max(s.capacity * 2, s.size + 1)
                             ELSE arg[1]
             fresh == [p \in 1..Max(new_capacity, 0) |-> NoneVal]
             c == CopyLoop(s, fresh, 0)
         IN IF ~c.ok THEN Raise(s, c.err)
            ELSE [s EXCEPT !.items = c.val,
                           !.isList = TRUE,
                           !.capacity = new_capacity,
                           !.head = s.size,
                           !.tail = 0,
                           !.POW_2 = _is_power_of_2(new_capacity)]

peek(s) ==
    IF is_empty(s) /\ DEBUG THEN Raise(s, "ValueError")
    ELSE LET r == GetItem(s.items, s.tail) IN
         IF ~r.ok THEN Raise(s, r.err)
         ELSE [s EXCEPT !.ret = <<r.val>>]

enqueue(s, value) ==
    LET s1 == IF is_full(s)
              THEN IF OVERWRITING
                   THEN LET m == _move_pointer(s, s.tail, 1) IN
                        IF m.ok THEN [s EXCEPT !.tail = m.val] ELSE Raise(s, m.err)
                   ELSE IF RESIZE THEN resize(s, <<>>)
                   ELSE IF DEBUG THEN Raise(s, "ValueError")
                   ELSE s
              ELSE [s EXCEPT !.size = @ + 1]
    IN IF s1.err # "none" THEN s1
       ELSE LET w == SetItem(s1.items, s1.head, value) IN
            IF ~w.ok THEN Raise(s1, w.err)
            ELSE LET s2 == [s1 EXCEPT !.items = w.val]
                     m == _move_pointer(s2, s2.head, 1)
                 IN IF m.ok THEN [s2 EXCEPT !.head = m.val] ELSE Raise(s2, m.err)

dequeue(s) ==
    IF is_empty(s) /\ DEBUG THEN Raise(s, "ValueError")
    ELSE LET r == GetItem(s.items, s.tail) IN
         IF ~r.ok THEN Raise(s, r.err)
         ELSE LET m == _move_pointer(s, s.tail, 1) IN
              IF ~m.ok THEN Raise(s, m.err)
              ELSE [s EXCEPT !.tail = m.val, !.size = @ - 1, !.ret = <<r.val>>]

\* bulk_enqueue, from the overflow computation on: n = input_size values vs.
bulk_write(s, vs, n) ==
    LET overflow == Max(0, s.size + n - s.capacity)
        m1 == _move_pointer(s, s.tail, overflow)
        s1 == IF overflow # 0
              THEN IF m1.ok
                   THEN [s EXCEPT !.tail = m1.val, !.size = @ - overflow]
                   ELSE Raise(s, m1.err)
              ELSE s
    IN IF s1.err # "none" THEN s1
       ELSE LET first_part == Min(n, s1.capacity - s1.head)
                second_part == n - first_part
                w1 == SliceAssign(s1.items, s1.head, s1.head + first_part,
                                  Slice(vs, 0, first_part), s1.isList)
            IN IF ~w1.ok THEN Raise(s1, w1.err)
               ELSE LET s2 == [s1 EXCEPT !.items = w1.val]
                        w2 == IF second_part # 0
                              THEN SliceAssign(s2.items, 0, second_part,
                                               Slice(vs, first_part, Len(vs)),
                                               s2.isList)
                              ELSE [ok |-> TRUE, err |-> "none", val |-> s2.items]
                    IN IF ~w2.ok THEN Raise(s2, w2.err)
                       ELSE LET s3 == [s2 EXCEPT !.items = w2.val]
                                m2 == _move_pointer(s3, s3.head, n)
                            IN IF ~m2.ok THEN Raise(s3, m2.err)
                               ELSE [s3 EXCEPT !.head = m2.val, !.size = @ + n]

bulk_enqueue(s, vs) ==
    IF vs = <<>> THEN s
    ELSE LET space_in_buffer == s.capacity - s.size
             grow == RESIZE /\ Len(vs) > space_in_buffer
             s1 == IF grow
                   THEN resize(s, <<Max(s.capacity * 2, s.size + 1)>>)
                   ELSE s
             cut == ~OVERWRITING /\ Len(vs) > space_in_buffer
             input_size == IF cut THEN space_in_buffer ELSE Len(vs)
             kept == IF cut THEN Slice(vs, 0, space_in_buffer) ELSE vs
         IN IF s1.err # "none" THEN s1
            ELSE IF input_size <= 0 THEN s1
            ELSE bulk_write(s1, kept, input_size)

bulk_dequeue(s, amount) ==
    LET count == Min(amount, s.size) IN
    IF count = 0 THEN s
    ELSE LET first_part == Min(count, s.capacity - s.tail)
             remaining == count - first_part
             run == Slice(s.items, s.tail, s.tail + first_part)
             out == IF remaining > 0
                    THEN run \o Slice(s.items, 0, remaining)
                    ELSE run
             m == _move_pointer(s, s.tail, count)
         IN IF ~m.ok THEN Raise(s, m.err)
            ELSE [s EXCEPT !.tail = m.val, !.size = @ - count, !.ret = out]

\* What bulk_dequeue(amount) hands to its caller. A basic slice of a numpy
\* array is a view of slots lo..hi-1 of the storage; np.concatenate, a slice
\* of a list and the literal [] are objects of their own.
bulk_dequeue_out(s, amount) ==
    LET count == Min(amount, s.size)
        first_part == Min(count, s.capacity - s.tail)
        remaining == count - first_part
        r == bulk_dequeue(s, amount)
    IN [view |-> count # 0 /\ ~s.isList /\ remaining <= 0,
        lo |-> s.tail,
        hi |-> s.tail + first_part,
        was |-> r.ret,
        frozen |-> r.ret]

\* ------------------------------------------------------- the actions
\* Sequences over Values of length 1..n.
RECURSIVE SeqsUpTo(_)
SeqsUpTo(n) ==
    IF n = 0 THEN {<<>>}
    ELSE LET shorter == SeqsUpTo(n - 1) IN
         shorter \cup {Append(q, v) : q \in {x \in shorter : Len(x) = n - 1}, v \in Values}

Inputs == SeqsUpTo(MaxBulk)

\* The model's bounds on what a call may leave behind.
WithinBounds(r) ==
    /\ r.capacity <= MaxCapacity
    /\ Len(r.items) <= MaxCapacity
    /\ r.size >= 0 - MaxSkew
    /\ r.size <= MaxCapacity + MaxSkew

\* The call `name` ended as r.
Do(name, r) ==
    /\ WithinBounds(r)
    /\ items' = r.items
    /\ isList' = r.isList
    /\ capacity' = r.capacity
    /\ head' = r.head
    /\ tail' = r.tail
    /\ size' = r.size
    /\ POW_2' = r.POW_2
    /\ op' = name
    /\ err' = r.err
    /\ ret' = r.ret
    /\ UNCHANGED flags

\* Nothing was returned by bulk_dequeue yet.
NoArray == [view |-> FALSE, lo |-> 0, hi |-> 0, was |-> <<>>, frozen |-> <<>>]

Threads == 1..2

\* A thread that is in no method.
Idle == [pc |-> "idle", call |-> "none", arg |-> ZeroVal, value |-> ZeroVal,
         err |-> "none"]

\* __init__(capacity, None, OVERWRITING, RESIZE, DEBUG) with capacity >= 1 and
\* one of the three overflow policies: Reject (neither flag), Overwrite, Grow.
Init ==
    /\ capacity \in 1..MaxInitCap
    /\ size = 0
    /\ items = [p \in 1..capacity |-> ZeroVal]
    /\ isList = FALSE
    /\ OVERWRITING \in BOOLEAN
    /\ RESIZE \in BOOLEAN
    /\ ~(OVERWRITING /\ RESIZE)
    /\ DEBUG \in BOOLEAN
    /\ head = 0
    /\ tail = 0
    /\ POW_2 = _is_power_of_2(capacity)
    /\ op = "init"
    /\ err = "none"
    /\ ret = <<>>
    /\ enqd = <<>>
    /\ deqd = <<>>
    /\ inBounds = TRUE
    /\ held = NoArray
    /\ thr = [start |-> <<>>, th |-> [t \in Threads |-> Idle]]

Peek == Do("peek", peek(Cur)) /\ UNCHANGED <<hist, held, thr>>

Enqueue == \E v \in Values : Do("enqueue", enqueue(Cur, v)) /\ UNCHANGED <<hist, held, thr>>

Dequeue == Do("dequeue", dequeue(Cur)) /\ UNCHANGED <<hist, held, thr>>

BulkEnqueue == \E vs \in Inputs : Do("bulk_enqueue", bulk_enqueue(Cur, vs)) /\ UNCHANGED <<hist, held, thr>>

BulkDequeue == \E n \in -1..MaxBulk : Do("bulk_dequeue", bulk_dequeue(Cur, n)) /\ UNCHANGED <<hist, held, thr>>

Resize ==
    \E arg \in {<<>>} \cup {<<c>> : c \in -1..MaxCapacity} :
        Do("resize", resize(Cur, arg)) /\ UNCHANGED <<hist, held, thr>>

Next == Peek \/ Enqueue \/ Dequeue \/ BulkEnqueue \/ BulkDequeue \/ Resize

Spec == Init /\ [][Next]_vars

\* ------------------------------------------- enqueue/dequeue histories
\* The values k successive dequeue calls return, up to the first that raises.
RECURSIVE Drain(_, _)
Drain(s, k) ==
    IF k <= 0 THEN <<>>
    ELSE LET r == dequeue(s) IN
         IF r.err # "none" THEN <<>>
         ELSE r.ret \o Drain([r EXCEPT !.ret = <<>>], k - 1)

\* The last n elements of xs.
LastN(xs, n) == SubSeq(xs, Len(xs) - n + 1, Len(xs))

EnqueueH ==
    \E v \in Values :
        /\ Len(enqd) < MaxHist
        /\ Do("enqueue", enqueue(Cur, v))
        /\ enqd' = Append(enqd, v)
        /\ inBounds' = (inBounds /\ size # capacity)
        /\ UNCHANGED <<deqd, held, thr>>

DequeueH ==
    LET r == dequeue(Cur) IN
    /\ Do("dequeue", r)
    /\ deqd' = deqd \o r.ret
    /\ inBounds' = (inBounds /\ size # 0)
    /\ UNCHANGED <<enqd, held, thr>>

NextHist == EnqueueH \/ DequeueH

\* Only enqueue and dequeue are called, and every call is recorded.
SpecHist == Init /\ [][NextHist]_vars

\* --------------------------------------------- the array a caller holds
\* What the caller reads now in the array the last bulk_dequeue returned.
HeldNow == IF held.view THEN Slice(items, held.lo, held.hi) ELSE held.frozen

\* The call `name` ended as r. A resize that replaced the numpy array leaves a
\* view on the old array, which nothing writes any more.
DoA(name, r) ==
    /\ Do(name, r)
    /\ held' = IF held.view /\ ~isList /\ r.isList
               THEN [held EXCEPT !.view = FALSE, !.frozen = HeldNow]
               ELSE held
    /\ UNCHANGED <<hist, thr>>

EnqueueA == \E v \in Values : DoA("enqueue", enqueue(Cur, v))

BulkEnqueueA == \E vs \in Inputs : DoA("bulk_enqueue", bulk_enqueue(Cur, vs))

ResizeA ==
    \E arg \in {<<>>} \cup {<<c>> : c \in -1..MaxCapacity} :
        DoA("resize", resize(Cur, arg))

\* The caller keeps what bulk_dequeue returned; a call that raises returns
\* nothing.
BulkDequeueA ==
    \E n \in 0..MaxBulk :
        LET r == bulk_dequeue(Cur, n) IN
        /\ Do("bulk_dequeue", r)
        /\ held' = IF r.err = "none" THEN bulk_dequeue_out(Cur, n) ELSE held
        /\ UNCHANGED <<hist, thr>>

NextAlias == EnqueueA \/ BulkEnqueueA \/ ResizeA \/ BulkDequeueA

\* bulk_dequeue and the calls that write the storage, with the caller keeping
\* the array bulk_dequeue returned.
SpecAlias == Init /\ [][NextAlias]_vars

\* ------------------------------------------------- two threads, no lock
\* The buffer is now r; the threads' own state is set by the caller.
Write(r) ==
    /\ WithinBounds(r)
    /\ items' = r.items
    /\ isList' = r.isList
    /\ capacity' = r.capacity
    /\ head' = r.head
    /\ tail' = r.tail
    /\ size' = r.size
    /\ POW_2' = r.POW_2
    /\ UNCHANGED <<flags, obs, hist, held>>

At(t, pc) == thr.th[t].pc = pc
Goto(t, pc) == thr' = [thr EXCEPT !.th[t].pc = pc]
Fail(t, e) == thr' = [thr EXCEPT !.th[t].pc = "done", !.th[t].err = e]

\* The calls a thread makes.
Calls == {[Idle EXCEPT !.pc = "enq_test", !.call = "enqueue", !.arg = v] : v \in Values}
         \cup {[Idle EXCEPT !.pc = "deq_test", !.call = "dequeue"]}

\* Before the threads start, one thread fills the buffer.
Fill ==
    /\ thr.start = <<>>
    /\ \E v \in Values : Do("enqueue", enqueue(Cur, v))
    /\ UNCHANGED <<hist, held, thr>>

\* Both threads enter a method of the same buffer.
Fork ==
    /\ thr.start = <<>>
    /\ \E c1 \in Calls, c2 \in Calls :
           thr' = [start |-> <<Cur>>, th |-> [t \in Threads |-> IF t = 1 THEN c1 ELSE c2]]
    /\ UNCHANGED <<prog, flags, obs, hist, held>>

\* enqueue: if self.is_full(): ... else: ...
EnqTest(t) ==
    /\ At(t, "enq_test")
    /\ IF is_full(Cur)
       THEN IF OVERWRITING THEN Goto(t, "enq_drop")
            ELSE IF RESIZE THEN Goto(t, "enq_grow")
            ELSE IF DEBUG THEN Fail(t, "ValueError")
            ELSE Goto(t, "enq_store")
       ELSE Goto(t, "enq_count")
    /\ UNCHANGED <<prog, flags, obs, hist, held>>

\* enqueue: self._tail = self._move_pointer(self._tail)
EnqDrop(t) ==
    /\ At(t, "enq_drop")
    /\ LET m == _move_pointer(Cur, tail, 1) IN
       IF m.ok THEN Write([Cur EXCEPT !.tail = m.val]) /\ Goto(t, "enq_store")
       ELSE Write(Cur) /\ Fail(t, m.err)

\* enqueue: self.resize()
EnqGrow(t) ==
    /\ At(t, "enq_grow")
    /\ LET r == resize(Cur, <<>>) IN
       IF r.err = "none" THEN Write(r) /\ Goto(t, "enq_store")
       ELSE Write(Cur) /\ Fail(t, r.err)

\* enqueue: self._size += 1
EnqCount(t) ==
    /\ At(t, "enq_count")
    /\ Write([Cur EXCEPT !.size = @ + 1])
    /\ Goto(t, "enq_store")

\* enqueue: self._items[self._head] = value
EnqStore(t) ==
    /\ At(t, "enq_store")
    /\ LET w == SetItem(items, head, thr.th[t].arg) IN
       IF w.ok THEN Write([Cur EXCEPT !.items = w.val]) /\ Goto(t, "enq_advance")
       ELSE Write(Cur) /\ Fail(t, w.err)

\* enqueue: self._head = self._move_pointer(self._head)
EnqAdvance(t) ==
    /\ At(t, "enq_advance")
    /\ LET m == _move_pointer(Cur, head, 1) IN
       IF m.ok THEN Write([Cur EXCEPT !.head = m.val]) /\ Goto(t, "done")
       ELSE Write(Cur) /\ Fail(t, m.err)

\* dequeue: if self.is_empty() and self._DEBUG: raise ValueError
DeqTest(t) ==
    /\ At(t, "deq_test")
    /\ IF is_empty(Cur) /\ DEBUG THEN Fail(t, "ValueError") ELSE Goto(t, "deq_read")
    /\ UNCHANGED <<prog, flags, obs, hist, held>>

\* dequeue: value = self._items[self._tail]
DeqRead(t) ==
    /\ At(t, "deq_read")
    /\ LET r == GetItem(items, tail) IN
       IF r.ok THEN thr' = [thr EXCEPT !.th[t].pc = "deq_move", !.th[t].value = r.val]
       ELSE Fail(t, r.err)
    /\ UNCHANGED <<prog, flags, obs, hist, held>>

\* dequeue: self._tail = self._move_pointer(self._tail)
DeqMove(t) ==
    /\ At(t, "deq_move")
    /\ LET m == _move_pointer(Cur, tail, 1) IN
       IF m.ok THEN Write([Cur EXCEPT !.tail = m.val]) /\ Goto(t, "deq_shrink")
       ELSE Write(Cur) /\ Fail(t, m.err)

\* dequeue: self._size -= 1; return value
DeqShrink(t) ==
    /\ At(t, "deq_shrink")
    /\ Write([Cur EXCEPT !.size = @ - 1])
    /\ Goto(t, "done")

NextThreads ==
    \/ Fill
    \/ Fork
    \/ \E t \in Threads : EnqTest(t)
    \/ \E t \in Threads : EnqDrop(t)
    \/ \E t \in Threads : EnqGrow(t)
    \/ \E t \in Threads : EnqCount(t)
    \/ \E t \in Threads : EnqStore(t)
    \/ \E t \in Threads : EnqAdvance(t)
    \/ \E t \in Threads : DeqTest(t)
    \/ \E t \in Threads : DeqRead(t)
    \/ \E t \in Threads : DeqMove(t)
    \/ \E t \in Threads : DeqShrink(t)

\* Two threads call enqueue or dequeue of one buffer; the interpreter may
\* switch threads between any two statements.
SpecThreads == Init /\ [][NextThreads]_vars

\* ------------------------------------------------------------ claims
Reject == ~OVERWRITING /\ ~RESIZE
Overwrite == OVERWRITING /\ ~RESIZE
Grow == RESIZE /\ ~OVERWRITING

\* enqueue(v) for each v of vs in order; a call that raises is caught and the
\* next value is tried.
RECURSIVE EnqueueEach(_, _)
EnqueueEach(s, vs) ==
    IF vs = <<>> THEN s
    ELSE EnqueueEach([enqueue(s, Head(vs)) EXCEPT !.err = "none"], Tail(vs))

\* What a caller can observe of a buffer: capacity, size, and what size
\* dequeues return.
Observable(s) == <<s.capacity, s.size, Drain(s, s.size)>>

\* C1: in every run of enqueue and dequeue calls in which no enqueue meets a
\* full buffer and no dequeue an empty one, the values dequeued so far are the
\* first values enqueued, in order (the n-th dequeue returns the n-th enqueued
\* value), and the values still to be dequeued are the rest, in order.
C1_Fifo ==
    inBounds => /\ Len(deqd) <= Len(enqd)
                /\ deqd = SubSeq(enqd, 1, Len(deqd))
                /\ size = Len(enqd) - Len(deqd)
                /\ Drain(Cur, size) = SubSeq(enqd, Len(deqd) + 1, Len(enqd))

\* Four values went through a buffer of capacity 3 (not a power of two) and
\* all four came out: head and tail both wrapped.
C1_Witness ==
    /\ inBounds
    /\ capacity = 3
    /\ Len(enqd) = 4
    /\ Len(deqd) = 4
    /\ deqd[1] # deqd[2]
    /\ deqd[3] # deqd[4]
    /\ op = "dequeue"
    /\ head = 1
    /\ tail = 1

\* C2: 0 <= size <= capacity in every reachable state.
C2_SizeInRange == 0 <= size /\ size <= capacity

\* C3: (head - tail) mod capacity = size mod capacity in every reachable state.
C3_HeadTailSize ==
    capacity > 0 => (head - tail) % capacity = size % capacity

\* C4: in every reachable state and for every input vs, bulk_enqueue(vs) leaves
\* the same capacity, size and oldest-first contents as enqueue(v) for each v
\* of vs in order.
C4_BulkEqualsSingles ==
    \A vs \in Inputs :
        Observable(bulk_enqueue(Cur, vs)) = Observable(EnqueueEach(Cur, vs))

\* C5: in every reachable state and for every amount >= 0, bulk_dequeue(amount)
\* returns the count = min(amount, size) values that count dequeue calls
\* return, advances tail by count modulo capacity, decreases size by count and
\* leaves head, capacity and the storage unchanged.
C5_BulkDequeue ==
    \A amount \in 0..MaxBulk :
        LET r == bulk_dequeue(Cur, amount)
            count == Min(amount, size)
        IN /\ r.err = "none"
           /\ Len(r.ret) = count
           /\ r.ret = Drain(Cur, count)
           /\ capacity > 0 => r.tail = (tail + count) % capacity
           /\ r.size = size - count
           /\ r.head = head
           /\ r.capacity = capacity
           /\ r.items = items

\* C6: under Overwrite, after k enqueues and no dequeue the buffer holds the
\* last min(k, capacity) enqueued values in enqueue order, and its size is
\* min(k, capacity).
C6_OverwriteKeepsNewest ==
    (Overwrite /\ deqd = <<>>) =>
        /\ size = Min(Len(enqd), capacity)
        /\ Drain(Cur, size) = LastN(enqd, Min(Len(enqd), capacity))

\* Four enqueues into an Overwrite buffer of capacity 3: the first value was
\* dropped, the newest kept.
C6_Witness ==
    /\ Overwrite
    /\ deqd = <<>>
    /\ op = "enqueue"
    /\ capacity = 3
    /\ Len(enqd) = 4
    /\ enqd[1] # enqd[2]
    /\ enqd[1] # enqd[4]
    /\ size = 3
    /\ Drain(Cur, 3) = <<enqd[2], enqd[3], enqd[4]>>

\* C7: under Grow, enqueue(v) on a full buffer ends with a larger capacity, the
\* size one more, and dequeues returning the old contents followed by v.
C7_GrowEnqueue ==
    (Grow /\ size = capacity) =>
        \A v \in Values :
            LET r == enqueue(Cur, v) IN
            /\ r.err = "none"
            /\ r.capacity > capacity
            /\ r.size = size + 1
            /\ Drain(r, r.size) = Append(Drain(Cur, size), v)

\* C8: under Reject in non-strict mode, enqueue on a full buffer changes
\* nothing: head, tail, size, capacity and the storage stay as they are.
C8_RejectNoop ==
    (Reject /\ ~DEBUG /\ size = capacity) =>
        \A v \in Values : enqueue(Cur, v) = Cur

\* C9: in strict mode, enqueue on a full buffer under Reject, and peek and
\* dequeue on an empty buffer, raise and leave head, tail, size, capacity and
\* the storage unchanged.
C9_StrictRaises ==
    [][DEBUG =>
        /\ (op' = "enqueue" /\ Reject /\ size = capacity) =>
               (err' = "ValueError" /\ UNCHANGED prog)
        /\ (op' \in {"peek", "dequeue"} /\ size = 0) =>
               (err' = "ValueError" /\ ret' = <<>> /\ UNCHANGED prog)]_vars

\* A strict Reject buffer of capacity 3 is full, enqueue has just raised, and
\* the next dequeue returns the oldest value and leaves size 2.
C9_Witness ==
    /\ DEBUG
    /\ Reject
    /\ op = "enqueue"
    /\ err = "ValueError"
    /\ capacity = 3
    /\ size = 3
    /\ dequeue(Cur).ret = <<items[tail + 1]>>
    /\ dequeue(Cur).size = 2

\* C10: under Overwrite, in every reachable state, bulk_enqueue of any n >= 1
\* values completes and leaves the buffer holding the last
\* min(capacity, size + n) values of the old contents followed by the input.
C10_BulkOverwrite ==
    Overwrite =>
        \A vs \in Inputs \ {<<>>} :
            LET r == bulk_enqueue(Cur, vs)
                all == Drain(Cur, size) \o vs
            IN /\ r.err = "none"
               /\ Drain(r, r.size) = LastN(all, Min(capacity, size + Len(vs)))

\* C11: under Grow, in every reachable state, bulk_enqueue of n > capacity -
\* size values ends with capacity >= size + n, size grown by n, and dequeues
\* returning the old contents followed by all n values.
C11_BulkGrow ==
    Grow =>
        \A vs \in Inputs :
            Len(vs) > capacity - size =>
                LET r == bulk_enqueue(Cur, vs) IN
                /\ r.err = "none"
                /\ r.capacity >= size + Len(vs)
                /\ r.size = size + Len(vs)
                /\ Drain(r, r.size) = Drain(Cur, size) \o vs

\* C12: under Reject in strict mode, bulk_enqueue of n > capacity - size values
\* raises and leaves storage, capacity, head, tail and size unchanged.
C12_StrictBulkRaises ==
    (Reject /\ DEBUG) =>
        \A vs \in Inputs :
            Len(vs) > capacity - size =>
                LET r == bulk_enqueue(Cur, vs) IN
                /\ r.err # "none"
                /\ [r EXCEPT !.err = "none"] = Cur

\* The arguments resize is called with: None, or an integer.
ResizeArgs == {<<>>} \cup {<<c>> : c \in -1..(MaxCapacity + 1)}

\* The capacity resize(arg) asks for.
Requested(arg) == IF arg = <<>> THEN Max(capacity * 2, size + 1) ELSE arg[1]

\* C13: under Grow, in every reachable state, resize(new_capacity) with
\* new_capacity >= size, and resize() with its default, keeps size, sets
\* capacity to new_capacity, tail to 0 and head to size, and the next size
\* dequeues return what they would have returned before the call.
C13_ResizePreserves ==
    Grow =>
        \A arg \in ResizeArgs :
            Requested(arg) >= size =>
                LET r == resize(Cur, arg) IN
                /\ r.err = "none"
                /\ r.size = size
                /\ r.capacity = Requested(arg)
                /\ r.tail = 0
                /\ r.head = size
                /\ Drain(r, r.size) = Drain(Cur, size)

\* C14: under Grow, in every reachable state, resize(new_capacity) with
\* new_capacity <= 0 or new_capacity < size raises and leaves storage,
\* capacity, head, tail and size unchanged.
C14_ResizeRejects ==
    Grow =>
        \A arg \in ResizeArgs \ {<<>>} :
            (arg[1] <= 0 \/ arg[1] < size) =>
                LET r == resize(Cur, arg) IN
                /\ r.err # "none"
                /\ [r EXCEPT !.err = "none"] = Cur

\* C15: when the policy is not Grow, no step changes capacity, and a resize
\* step changes nothing of storage, capacity, head, tail, size and the
\* power-of-two cache, and raises nothing.
C15_ResizeNoopUnlessGrow ==
    [][~RESIZE =>
        /\ capacity' = capacity
        /\ op' = "resize" => (UNCHANGED prog /\ err' = "none")]_vars

\* resize was called on an Overwrite buffer of capacity 3 holding two values
\* with a wrapped tail, and left it as it was.
C15_Witness ==
    /\ Overwrite
    /\ op = "resize"
    /\ err = "none"
    /\ capacity = 3
    /\ ~isList
    /\ size = 2
    /\ tail = 2
    /\ head = 1

\* C17: head and tail are indices of the storage in every reachable state of a
\* buffer whose capacity is positive.
C17_IndicesInRange ==
    capacity > 0 =>
        /\ 0 <= head /\ head < capacity
        /\ 0 <= tail /\ tail < capacity

\* n is a power of two.
RECURSIVE IsPowerOfTwo(_)
IsPowerOfTwo(n) ==
    IF n < 1 THEN FALSE
    ELSE IF n = 1 THEN TRUE
    ELSE n % 2 = 0 /\ IsPowerOfTwo(n \div 2)

\* C19: in every reachable state with capacity >= 1 the cached flag says
\* whether capacity is a power of two, and for every pointer in [0, capacity)
\* and step >= 0, _move_pointer(pointer, step) = (pointer + step) mod capacity.
C19_MovePointerIsModulo ==
    capacity >= 1 =>
        /\ POW_2 = IsPowerOfTwo(capacity)
        /\ \A pointer \in 0..(capacity - 1), step \in 0..(2 * MaxCapacity + 1) :
               LET m == _move_pointer(Cur, pointer, step) IN
               m.ok /\ m.val = (pointer + step) % capacity

\* A buffer resized to capacity 3, not a power of two, holding two values.
C19_Witness ==
    /\ op = "resize"
    /\ err = "none"
    /\ isList
    /\ capacity = 3
    /\ ~POW_2
    /\ size = 2
    /\ _move_pointer(Cur, 2, 2).val = 1

\* C20: in every reachable state, bulk_dequeue(amount) with amount <= 0
\* returns an empty sequence and leaves head, tail, size and the storage
\* unchanged.
C20_NonPositiveAmount ==
    \A amount \in (0 - MaxBulk)..0 : bulk_dequeue(Cur, amount) = Cur

\* The call c of a thread, made on buffer s without interruption.
Sequential(s, c) ==
    LET r == IF c.call = "enqueue" THEN enqueue(s, c.arg) ELSE dequeue(s)
    IN [r EXCEPT !.err = "none", !.ret = <<>>]

\* C16: when both threads have left their methods, the buffer is as one of
\* the two sequential orders of the two calls leaves it.
C16_Atomic ==
    (thr.start # <<>> /\ \A t \in Threads : At(t, "done")) =>
        LET s == thr.start[1]
            c1 == thr.th[1]
            c2 == thr.th[2]
        IN Cur \in {Sequential(Sequential(s, c1), c2),
                    Sequential(Sequential(s, c2), c1)}

\* C18: the array a caller got from bulk_dequeue reads, in every later state,
\* as it did when it was returned.
C18_ReturnedIndependent == HeldNow = held.was

====
